---- MODULE Spec2Model ----
(***************************************************************************)
(* Model of turn.go (package webssh): one Turn bridges a pseudo-terminal   *)
(* and a websocket connection.  pipeOutput pumps pty output to the         *)
(* connection, LoopRead pumps framed client messages to the pty, Close     *)
(* releases the process, the pty and the connection.                       *)
(*                                                                         *)
(* Bytes are integers 0..255; a message is a sequence of bytes.            *)
(***************************************************************************)
EXTENDS Integers, Sequences, FiniteSets, TLC

\* ------------------------------------------------------------------------
\* Program constants
\* ------------------------------------------------------------------------
MsgData == 49

MsgResize == 50

BufferSize == 4096

\* ------------------------------------------------------------------------
\* Bounds of the model
\* ------------------------------------------------------------------------
\* number of messages LoopRead may receive
MaxFrames == 2

\* number of bursts of output the process may emit
MaxEmits == 2

\* number of reads of the pty that may return a single byte
MaxShortReads == 1

\* ------------------------------------------------------------------------
\* Frame codec: base64.StdEncoding as used by decode / encode
\* ------------------------------------------------------------------------
PadChar == 61

\* StdEncoding's decodeMap: the sextet of an alphabet character, 255 otherwise
DecodeMap(c) ==
  IF c >= 65 /\ c <= 90 THEN c - 65
  ELSE IF c >= 97 /\ c <= 122 THEN c - 71
  ELSE IF c >= 48 /\ c <= 57 THEN c + 4
  ELSE IF c = 43 THEN 62
  ELSE IF c = 47 THEN 63
  ELSE 255

\* StdEncoding's alphabet: the character of a sextet
EncodeMap(s) ==
  IF s <= 25 THEN s + 65
  ELSE IF s <= 51 THEN s + 71
  ELSE IF s <= 61 THEN s - 4
  ELSE IF s = 62 THEN 43
  ELSE 47

IsNewline(c) == c = 10 \/ c = 13

\* index of the first character at or after i that is not \n or \r
RECURSIVE SkipNewlines(_, _)
SkipNewlines(src, i) ==
  IF i <= Len(src) /\ IsNewline(src[i]) THEN SkipNewlines(src, i + 1) ELSE i

\* the 3 bytes of 4 sextets, cut to n bytes
QuantumBytes(d, n) ==
  LET s == d \o <<0, 0, 0, 0>>
      b == << s[1] * 4 + (s[2] \div 16),
              (s[2] % 16) * 16 + (s[3] \div 4),
              (s[3] % 4) * 64 + s[4] >>
  IN  SubSeq(b, 1, n)

\* Encoding.decodeQuantum: decodes up to 4 characters from index i (1-based).
\* Result: next index, bytes produced, error flag.
RECURSIVE decodeQuantum(_, _, _)
decodeQuantum(src, i, d) ==
  LET j == Len(d) IN
  IF j = 4 THEN [si |-> i, out |-> QuantumBytes(d, 3), err |-> FALSE]
  ELSE IF i > Len(src) THEN
    \* end of input inside a quantum: fine only at a quantum boundary
    [si |-> i, out |-> <<>>, err |-> (j # 0)]
  ELSE IF DecodeMap(src[i]) # 255 THEN decodeQuantum(src, i + 1, Append(d, DecodeMap(src[i])))
  ELSE IF IsNewline(src[i]) THEN decodeQuantum(src, i + 1, d)
  ELSE IF src[i] # PadChar THEN [si |-> i + 1, out |-> <<>>, err |-> TRUE]
  ELSE IF j < 2 THEN [si |-> i + 1, out |-> <<>>, err |-> TRUE]
  ELSE
    LET k == SkipNewlines(src, i + 1)
        \* j = 2 expects a second pad character
        short == j = 2 /\ (k > Len(src) \/ src[k] # PadChar)
        m == IF j = 2 THEN SkipNewlines(src, k + 1) ELSE k
    IN  IF short THEN [si |-> k, out |-> <<>>, err |-> TRUE]
        ELSE [si |-> m, out |-> QuantumBytes(d, j - 1), err |-> (m <= Len(src))]

\* Encoding.Decode: quanta until the input ends or one fails; keeps what was
\* produced before (and by) the failing quantum
RECURSIVE DecodeFrom(_, _, _)
DecodeFrom(src, i, acc) ==
  IF i > Len(src) THEN [data |-> acc, err |-> FALSE]
  ELSE LET q == decodeQuantum(src, i, <<>>)
       IN  IF q.err THEN [data |-> acc \o q.out, err |-> TRUE]
           ELSE DecodeFrom(src, q.si, acc \o q.out)

\* Faulty variant of DecodeString: nothing is kept of a malformed input
DecodeString_AllOrNothing(s) ==
  LET r == DecodeFrom(s, 1, <<>>) IN
  IF r.err THEN [data |-> <<>>, err |-> TRUE] ELSE r

DecodeString(s) == DecodeFrom(s, 1, <<>>)

\* decode drops DecodeString's error and returns its bytes
decode(p) == DecodeString(p).data

\* Encoding.EncodeToString
RECURSIVE encode(_)
encode(p) ==
  IF Len(p) = 0 THEN <<>>
  ELSE IF Len(p) = 1 THEN
    << EncodeMap(p[1] \div 4), EncodeMap((p[1] % 4) * 16), PadChar, PadChar >>
  ELSE IF Len(p) = 2 THEN
    << EncodeMap(p[1] \div 4), EncodeMap((p[1] % 4) * 16 + (p[2] \div 16)),
       EncodeMap((p[2] % 16) * 4), PadChar >>
  ELSE
    << EncodeMap(p[1] \div 4), EncodeMap((p[1] % 4) * 16 + (p[2] \div 16)),
       EncodeMap((p[2] % 16) * 4 + (p[3] \div 64)), EncodeMap(p[3] % 64) >>
      \o encode(SubSeq(p, 4, Len(p)))

\* ------------------------------------------------------------------------
\* json.Unmarshal(body, &args) for args of type Resize.
\* Covers the documents made of: null, or an object whose members are
\* "key": integer, with optional whitespace between tokens.  Any other
\* input is reported as an error (as encoding/json does for truncated or
\* syntactically wrong input and for a non-integer in an int field).
\* ------------------------------------------------------------------------
IsDigit(c) == c >= 48 /\ c <= 57

IsSpace(c) == c = 32 \/ c = 9 \/ c = 10 \/ c = 13

RECURSIVE SkipSpace(_, _)
SkipSpace(b, i) ==
  IF i <= Len(b) /\ IsSpace(b[i]) THEN SkipSpace(b, i + 1) ELSE i

ToLower(c) == IF c >= 65 /\ c <= 90 THEN c + 32 ELSE c

Fold(k) == [n \in 1..Len(k) |-> ToLower(k[n])]

\* "columns" and "rows", the json tags of Resize
KeyColumns == <<99, 111, 108, 117, 109, 110, 115>>

KeyRows == <<114, 111, 119, 115>>

\* digits from index i: value and index after them
RECURSIVE ScanDigits(_, _, _)
ScanDigits(b, i, acc) ==
  IF i <= Len(b) /\ IsDigit(b[i]) THEN ScanDigits(b, i + 1, acc * 10 + (b[i] - 48))
  ELSE [val |-> acc, next |-> i]

\* a JSON integer at index i: ['-'] ('0' | nonzero digit, digits)
ScanInt(b, i) ==
  LET neg == i <= Len(b) /\ b[i] = 45
      s == IF neg THEN i + 1 ELSE i
      d == ScanDigits(b, s, 0)
      leadingZero == d.next > s + 1 /\ b[s] = 48
  IN  IF d.next = s \/ leadingZero THEN [ok |-> FALSE, val |-> 0, next |-> i]
      ELSE [ok |-> TRUE, val |-> IF neg THEN 0 - d.val ELSE d.val, next |-> d.next]

\* index of the closing quote of a string whose opening quote is before i;
\* 0 when the string is unterminated or holds an escape or control byte
RECURSIVE ScanString(_, _)
ScanString(b, i) ==
  IF i > Len(b) THEN 0
  ELSE IF b[i] = 34 THEN i
  ELSE IF b[i] = 92 \/ b[i] < 32 THEN 0
  ELSE ScanString(b, i + 1)

ResizeError == [err |-> TRUE, Columns |-> 0, Rows |-> 0]

\* the members of an object from index i, where a member is expected
RECURSIVE ScanMembers(_, _, _)
ScanMembers(b, i0, args) ==
  LET i == SkipSpace(b, i0) IN
  IF i > Len(b) \/ b[i] # 34 THEN ResizeError
  ELSE
    LET q == ScanString(b, i + 1) IN
    IF q = 0 THEN ResizeError
    ELSE
      LET key == Fold(SubSeq(b, i + 1, q - 1))
          c == SkipSpace(b, q + 1)
      IN
      IF c > Len(b) \/ b[c] # 58 THEN ResizeError
      ELSE
        LET v == ScanInt(b, SkipSpace(b, c + 1)) IN
        IF ~v.ok THEN ResizeError
        ELSE
          LET set == IF key = KeyColumns THEN [args EXCEPT !.Columns = v.val]
                     ELSE IF key = KeyRows THEN [args EXCEPT !.Rows = v.val]
                     ELSE args
              e == SkipSpace(b, v.next)
          IN
          IF e > Len(b) THEN ResizeError
          ELSE IF b[e] = 44 THEN ScanMembers(b, e + 1, set)
          ELSE IF b[e] = 125 /\ SkipSpace(b, e + 1) > Len(b) THEN set
          ELSE ResizeError

\* json.Unmarshal into a zero Resize
Unmarshal(body) ==
  LET zero == [err |-> FALSE, Columns |-> 0, Rows |-> 0]
      i == SkipSpace(body, 1)
  IN
  IF i > Len(body) THEN ResizeError
  ELSE IF i + 3 <= Len(body) /\ SubSeq(body, i, i + 3) = <<110, 117, 108, 108>>
    THEN IF SkipSpace(body, i + 4) > Len(body) THEN zero ELSE ResizeError
  ELSE IF body[i] # 123 THEN ResizeError
  ELSE
    LET j == SkipSpace(body, i + 1) IN
    IF j <= Len(body) /\ body[j] = 125
    THEN IF SkipSpace(body, j + 1) > Len(body) THEN zero ELSE ResizeError
    ELSE ScanMembers(body, j, zero)

\* ------------------------------------------------------------------------
\* Messages the client may send
\* ------------------------------------------------------------------------
\* "ls\n"
BytesLs == <<108, 115, 10>>

\* {"columns":80,"rows":24}
JsonResize80x24 ==
  <<123, 34, 99, 111, 108, 117, 109, 110, 115, 34, 58, 56, 48, 44,
    34, 114, 111, 119, 115, 34, 58, 50, 52, 125>>

\* {"columns":0,"rows":24}
JsonResize0x24 ==
  <<123, 34, 99, 111, 108, 117, 109, 110, 115, 34, 58, 48, 44,
    34, 114, 111, 119, 115, 34, 58, 50, 52, 125>>

\* {"columns":80,"rows":-1}
JsonResize80xNeg ==
  <<123, 34, 99, 111, 108, 117, 109, 110, 115, 34, 58, 56, 48, 44,
    34, 114, 111, 119, 115, 34, 58, 45, 49, 125>>

\* {"columns":      (truncated document)
JsonTruncated == <<123, 34, 99, 111, 108, 117, 109, 110, 115, 34, 58>>

Frames ==
  { <<MsgData>> \o encode(BytesLs),
    <<MsgData>> \o encode(<<97>>),
    <<MsgData>> \o encode(BytesLs) \o <<33>>,      \* malformed base64 tail
    <<MsgResize>> \o encode(JsonResize80x24),
    <<MsgResize>> \o encode(JsonResize0x24),
    <<MsgResize>> \o encode(JsonResize80xNeg),
    <<MsgResize>> \o encode(JsonTruncated),
    <<51>> \o encode(<<97>>),                      \* discriminant '3'
    <<>> }                                         \* zero-length message

\* sizes of the bursts of output the process emits
EmitSizes == {1, BufferSize + 1}

\* ------------------------------------------------------------------------
\* State
\* ------------------------------------------------------------------------
\* po: the goroutine running pipeOutput; lr: the caller's goroutine running
\* LoopRead; ex: a goroutine of the caller that calls Close on its own
Threads == {"po", "lr", "ex"}

VARIABLES
  turn,         \* "none" before NewTurn, then "live" or "failed"
  hasRecorder,  \* t.Recorder != nil
  proc,         \* t.Cmd.Process: "none", "running", "exited", "reaped"
  ptyState,     \* t.Pty: "none", "open", "closed"
  connClosed,   \* t.WsConn was closed on this side
  remoteClosed, \* the client closed the connection
  cancelled,    \* ctx.Done() is closed
  pc,           \* position of each thread
  rel,          \* per thread: the releases its Close invocation has invoked
  closeErr,     \* per thread: what its Close returned ("none": not returned)
  relFail,      \* per thread: the releases of its Close that returned an error
  ptyAvail,     \* bytes of process output waiting in the pty
  ptyOff,       \* offset in the output stream of the next byte to read
  emits,        \* number of bursts emitted
  chunk,        \* pipeOutput's data := buffer[:n], as <<offset, n>>
  readHist,     \* chunks returned by t.Pty.Read, as <<offset, n>>
  wsOut,        \* messages written to the connection by WriteMessage
  wsData,       \* LoopRead's wsData
  lrErr,        \* LoopRead's return value ("none": not returned)
  inFrames,     \* messages returned by ReadMessage
  ptyIn,        \* calls of t.Pty.Write: [data, ok]
  logBuff,      \* the caller's log buffer
  resizeCalls,  \* calls of t.Pty.Resize: <<rows, columns>>
  recLock,      \* holder of the recorder lock, or "none"
  recLog,       \* entries written to the recorder
  ioLog         \* with a recorder: the connection and pty writes, in order

envVars == <<proc, ptyState, connClosed, remoteClosed, cancelled, ptyAvail, ptyOff, emits>>

closeVars == <<rel, closeErr, relFail>>

outVars == <<chunk, readHist, wsOut>>

inVars == <<wsData, lrErr, inFrames, ptyIn, logBuff, resizeCalls>>

recVars == <<recLock, recLog, ioLog>>

vars == <<turn, hasRecorder, pc, envVars, closeVars, outVars, inVars, recVars>>

Min(a, b) == IF a < b THEN a ELSE b

Range(s) == {s[i] : i \in 1..Len(s)}

Init ==
  /\ turn = "none"
  /\ hasRecorder = FALSE
  /\ proc = "none"
  /\ ptyState = "none"
  /\ connClosed = FALSE
  /\ remoteClosed = FALSE
  /\ cancelled = FALSE
  /\ pc = [t \in Threads |-> "idle"]
  /\ rel = [t \in Threads |-> <<>>]
  /\ closeErr = [t \in Threads |-> "none"]
  /\ relFail = [t \in Threads |-> {}]
  /\ ptyAvail = 0
  /\ ptyOff = 0
  /\ emits = 0
  /\ chunk = <<>>
  /\ readHist = <<>>
  /\ wsOut = <<>>
  /\ wsData = <<>>
  /\ lrErr = "none"
  /\ inFrames = <<>>
  /\ ptyIn = <<>>
  /\ logBuff = <<>>
  /\ resizeCalls = <<>>
  /\ recLock = "none"
  /\ recLog = <<>>
  /\ ioLog = <<>>

\* ------------------------------------------------------------------------
\* NewTurn
\* ------------------------------------------------------------------------
\* Faulty variant of NewTurn: the pty is left open when cmd.Start fails
NewTurn_LeakPty(ptyOk, startOk, recorder) ==
  /\ turn = "none"
  /\ turn' = IF ptyOk /\ startOk THEN "live" ELSE "failed"
  /\ ptyState' = IF ~ptyOk THEN "none" ELSE "open"
  /\ proc' = IF ptyOk /\ startOk THEN "running" ELSE "none"
  /\ hasRecorder' = (ptyOk /\ startOk /\ recorder)
  /\ pc' = IF ptyOk /\ startOk THEN [pc EXCEPT !["po"] = "read"] ELSE pc
  /\ UNCHANGED <<connClosed, remoteClosed, cancelled, ptyAvail, ptyOff, emits>>
  /\ UNCHANGED <<closeVars, outVars, inVars, recVars>>

\* ptyOk: pty.New succeeded; startOk: cmd.Start succeeded; recorder: the
\* recorder argument is not nil
NewTurn(ptyOk, startOk, recorder) ==
  /\ turn = "none"
  /\ turn' = IF ptyOk /\ startOk THEN "live" ELSE "failed"
  /\ ptyState' = IF ~ptyOk THEN "none" ELSE IF startOk THEN "open" ELSE "closed"
  /\ proc' = IF ptyOk /\ startOk THEN "running" ELSE "none"
  /\ hasRecorder' = (ptyOk /\ startOk /\ recorder)
  /\ pc' = IF ptyOk /\ startOk THEN [pc EXCEPT !["po"] = "read"] ELSE pc
  /\ UNCHANGED <<connClosed, remoteClosed, cancelled, ptyAvail, ptyOff, emits>>
  /\ UNCHANGED <<closeVars, outVars, inVars, recVars>>

\* ------------------------------------------------------------------------
\* The environment: the spawned process, the client, the caller's context
\* ------------------------------------------------------------------------
\* the process writes a burst of output to its terminal
ProcEmit(sizes) ==
  /\ proc = "running" /\ ptyState = "open" /\ emits < MaxEmits
  /\ \E k \in sizes : ptyAvail' = ptyAvail + k
  /\ emits' = emits + 1
  /\ UNCHANGED <<turn, hasRecorder, pc, proc, ptyState, connClosed, remoteClosed, cancelled, ptyOff>>
  /\ UNCHANGED <<closeVars, outVars, inVars, recVars>>

\* the process exits on its own
ProcExit ==
  /\ proc = "running"
  /\ proc' = "exited"
  /\ UNCHANGED <<turn, hasRecorder, pc, ptyState, connClosed, remoteClosed, cancelled, ptyAvail, ptyOff, emits>>
  /\ UNCHANGED <<closeVars, outVars, inVars, recVars>>

\* CmdWait returns: t.Cmd.Wait() has reaped the exited process
CmdWait ==
  /\ proc = "exited"
  /\ proc' = "reaped"
  /\ UNCHANGED <<turn, hasRecorder, pc, ptyState, connClosed, remoteClosed, cancelled, ptyAvail, ptyOff, emits>>
  /\ UNCHANGED <<closeVars, outVars, inVars, recVars>>

\* the client closes the connection
RemoteClose ==
  /\ turn = "live" /\ ~remoteClosed
  /\ remoteClosed' = TRUE
  /\ UNCHANGED <<turn, hasRecorder, pc, proc, ptyState, connClosed, cancelled, ptyAvail, ptyOff, emits>>
  /\ UNCHANGED <<closeVars, outVars, inVars, recVars>>

\* the caller cancels the context it passed (or will pass) to LoopRead
Cancel ==
  /\ turn = "live" /\ ~cancelled
  /\ cancelled' = TRUE
  /\ UNCHANGED <<turn, hasRecorder, pc, proc, ptyState, connClosed, remoteClosed, ptyAvail, ptyOff, emits>>
  /\ UNCHANGED <<closeVars, outVars, inVars, recVars>>

\* ------------------------------------------------------------------------
\* Close
\* ------------------------------------------------------------------------
\* t.Cmd.Process.Kill() fails once the process has been waited for
\* (os: process already finished); otherwise it ends the process
KillFails(p) == p = "reaped"

AfterKill(p) == IF p = "running" THEN "exited" ELSE p

\* Faulty variant of CloseNext: the connection is closed before the pty
CloseNext_ConnFirst(step, failed) ==
  CASE step = "Ckill" -> IF failed THEN "done" ELSE "Cconn"
    [] step = "Cconn" -> "Cpty"
    [] step = "Cpty" -> "done"

\* Control flow of Close: the step that follows a step, given whether the
\* step's release returned an error.  Only the kill error ends Close early;
\* the error of t.Pty.Close() is dropped.
CloseNext(step, failed) ==
  CASE step = "Ckill" -> IF failed THEN "done" ELSE "Cpty"
    [] step = "Cpty" -> "Cconn"
    [] step = "Cconn" -> "done"

\* what Close returns when it ends at a step
CloseResult(step, failed) ==
  CASE step = "Ckill" -> "kill"
    [] step = "Cpty" -> "nil"
    [] step = "Cconn" -> IF failed THEN "conn" ELSE "nil"

\* the release a step of Close invokes
StepRelease(step) ==
  CASE step = "Ckill" -> "kill"
    [] step = "Cpty" -> "pty"
    [] step = "Cconn" -> "conn"

CloseStep(t, step, failed) ==
  LET next == CloseNext(step, failed) IN
  /\ pc' = [pc EXCEPT ![t] = next]
  /\ relFail' = IF failed THEN [relFail EXCEPT ![t] = @ \cup {StepRelease(step)}]
                ELSE relFail
  /\ closeErr' = IF next = "done"
                 THEN [closeErr EXCEPT ![t] = CloseResult(step, failed)]
                 ELSE closeErr

\* t.Cmd.Process.Kill()
CloseKill(t) ==
  /\ pc[t] = "Ckill"
  /\ rel' = [rel EXCEPT ![t] = Append(@, "kill")]
  /\ proc' = IF KillFails(proc) THEN proc ELSE AfterKill(proc)
  /\ CloseStep(t, "Ckill", KillFails(proc))
  /\ UNCHANGED <<turn, hasRecorder, ptyState, connClosed, remoteClosed, cancelled, ptyAvail, ptyOff, emits>>
  /\ UNCHANGED <<outVars, inVars, recVars>>

\* t.Pty.Close()
ClosePty(t) ==
  /\ pc[t] = "Cpty"
  /\ rel' = [rel EXCEPT ![t] = Append(@, "pty")]
  /\ ptyState' = "closed"
  /\ CloseStep(t, "Cpty", ptyState = "closed")
  /\ UNCHANGED <<turn, hasRecorder, proc, connClosed, remoteClosed, cancelled, ptyAvail, ptyOff, emits>>
  /\ UNCHANGED <<outVars, inVars, recVars>>

\* t.WsConn.Close()
CloseConn(t) ==
  /\ pc[t] = "Cconn"
  /\ rel' = [rel EXCEPT ![t] = Append(@, "conn")]
  /\ connClosed' = TRUE
  /\ CloseStep(t, "Cconn", connClosed)
  /\ UNCHANGED <<turn, hasRecorder, proc, ptyState, remoteClosed, cancelled, ptyAvail, ptyOff, emits>>
  /\ UNCHANGED <<outVars, inVars, recVars>>

\* the caller calls Close on a live Turn from a goroutine of its own
ExplicitClose ==
  /\ turn = "live" /\ pc["ex"] = "idle"
  /\ pc' = [pc EXCEPT !["ex"] = "Ckill"]
  /\ UNCHANGED <<turn, hasRecorder, envVars, closeVars, outVars, inVars, recVars>>

\* ------------------------------------------------------------------------
\* pipeOutput
\* ------------------------------------------------------------------------
\* t.Recorder.Lock() returns only while no one holds the recorder's lock
LockFree == recLock = "none"

\* number of bytes a read may return when avail bytes are waiting
ReadSizes(avail, hist) ==
  {Min(avail, BufferSize)}
    \cup IF Cardinality({i \in 1..Len(hist) : hist[i][2] = 1}) < MaxShortReads
         THEN {1} ELSE {}

\* Faulty variant of Data: the whole buffer is sent, not buffer[:n]
Data_WholeBuffer(off, n) == <<off, BufferSize>>

\* data := buffer[:n], where the read filled the buffer from offset off
Data(off, n) == <<off, n>>

\* the message handed to t.WsConn.WriteMessage
OutMessage(data) == [type |-> "binary", data |-> data]

\* Faulty variant of PipeOnError: a failed write falls through to the recorder
PipeOnError_FallThrough == "lock"

\* where pipeOutput goes after a failed read or write: t.Close(), then return
PipeOnError == "Ckill"

\* Faulty variant of PipeAfterWrite: the recorder is written without Lock
PipeAfterWrite_NoLock(recorder) == IF recorder THEN "record" ELSE "read"

\* where pipeOutput goes after a successful write
PipeAfterWrite(recorder) == IF recorder THEN "lock" ELSE "read"

\* n, err := t.Pty.Read(buffer)
PipeRead ==
  /\ pc["po"] = "read"
  /\ \/ /\ ptyState = "open" /\ ptyAvail > 0
        /\ \E n \in ReadSizes(ptyAvail, readHist) :
             /\ chunk' = Data(ptyOff, n)
             /\ readHist' = Append(readHist, <<ptyOff, n>>)
             /\ ptyOff' = ptyOff + n
             /\ ptyAvail' = ptyAvail - n
        /\ pc' = [pc EXCEPT !["po"] = "write"]
        /\ UNCHANGED wsOut
     \/ \* os.ErrClosed, or the error that follows the process's exit
        /\ ptyState = "closed" \/ (ptyAvail = 0 /\ proc # "running")
        /\ pc' = [pc EXCEPT !["po"] = PipeOnError]
        /\ UNCHANGED <<outVars, ptyOff, ptyAvail>>
  /\ UNCHANGED <<turn, hasRecorder, proc, ptyState, connClosed, remoteClosed, cancelled, emits>>
  /\ UNCHANGED <<closeVars, inVars, recVars>>

\* t.WsConn.WriteMessage(websocket.BinaryMessage, data); a write to a
\* connection the client has closed may still succeed locally
PipeWrite ==
  /\ pc["po"] = "write"
  /\ \E ok \in BOOLEAN :
       /\ connClosed => ~ok
       /\ ~(connClosed \/ remoteClosed) => ok
       /\ IF ok
          THEN /\ wsOut' = Append(wsOut, OutMessage(chunk))
               /\ ioLog' = IF hasRecorder
                           THEN Append(ioLog, [type |-> "output", data |-> chunk])
                           ELSE ioLog
               /\ pc' = [pc EXCEPT !["po"] = PipeAfterWrite(hasRecorder)]
          ELSE /\ pc' = [pc EXCEPT !["po"] = PipeOnError]
               /\ UNCHANGED <<wsOut, ioLog>>
  /\ UNCHANGED <<turn, hasRecorder, envVars, closeVars, chunk, readHist, inVars>>
  /\ UNCHANGED <<recLock, recLog>>

\* t.Recorder.Lock()
PipeLock ==
  /\ pc["po"] = "lock" /\ LockFree
  /\ recLock' = "po"
  /\ pc' = [pc EXCEPT !["po"] = "record"]
  /\ UNCHANGED <<turn, hasRecorder, envVars, closeVars, outVars, inVars, recLog, ioLog>>

\* t.Recorder.WriteData(OutPutType, string(data))
PipeRecord ==
  /\ pc["po"] = "record"
  /\ recLog' = Append(recLog, [type |-> "output", data |-> chunk])
  /\ pc' = [pc EXCEPT !["po"] = "unlock"]
  /\ UNCHANGED <<turn, hasRecorder, envVars, closeVars, outVars, inVars, recLock, ioLog>>

\* t.Recorder.Unlock()
PipeUnlock ==
  /\ pc["po"] = "unlock"
  /\ recLock' = "none"
  /\ pc' = [pc EXCEPT !["po"] = "read"]
  /\ UNCHANGED <<turn, hasRecorder, envVars, closeVars, outVars, inVars, recLog, ioLog>>

\* ------------------------------------------------------------------------
\* LoopRead
\* ------------------------------------------------------------------------
\* Faulty variant of SelectNext: the loop head does not look at ctx.Done()
SelectNext_NoCheck(done) == "recv"

\* select { case <-ctx.Done(): return ...; default: ... }
SelectNext(done) == IF done THEN "ret" ELSE "recv"

NoEffect == [resize |-> <<>>, write |-> <<>>, log |-> <<>>]

\* Faulty variant of HandleResize: || in place of && in the test of the values
HandleResize_EitherPositive(body, ptyOk) ==
  LET args == Unmarshal(body) IN
  IF args.err THEN [next |-> "ret", err |-> "unmarshal"] @@ NoEffect
  ELSE IF args.Columns > 0 \/ args.Rows > 0
  THEN [next |-> IF ptyOk THEN "select" ELSE "ret",
        err |-> IF ptyOk THEN "none" ELSE "resize",
        resize |-> << <<args.Rows, args.Columns>> >>,
        write |-> <<>>, log |-> <<>>]
  ELSE [next |-> "select", err |-> "none"] @@ NoEffect

\* case MsgResize, with ptyOk telling whether t.Pty.Resize succeeds
HandleResize(body, ptyOk) ==
  LET args == Unmarshal(body) IN
  IF args.err THEN [next |-> "ret", err |-> "unmarshal"] @@ NoEffect
  ELSE IF args.Columns > 0 /\ args.Rows > 0
  THEN [next |-> IF ptyOk THEN "select" ELSE "ret",
        err |-> IF ptyOk THEN "none" ELSE "resize",
        resize |-> << <<args.Rows, args.Columns>> >>,
        write |-> <<>>, log |-> <<>>]
  ELSE [next |-> "select", err |-> "none"] @@ NoEffect

\* Faulty variant of HandleData: the log buffer is written before the result
\* of t.Pty.Write is looked at
HandleData_LogFirst(body, ptyOk, recorder) ==
  IF ~ptyOk
  THEN [next |-> "ret", err |-> "ptywrite", resize |-> <<>>,
        write |-> <<[data |-> body, ok |-> FALSE]>>, log |-> body]
  ELSE [next |-> IF recorder THEN "lock" ELSE "select", err |-> "none",
        resize |-> <<>>,
        write |-> <<[data |-> body, ok |-> TRUE]>>, log |-> body]

\* Faulty variant of HandleData: the error of t.Pty.Write is not looked at
HandleData_IgnoreError(body, ptyOk, recorder) ==
  [next |-> IF recorder THEN "lock" ELSE "select", err |-> "none",
   resize |-> <<>>,
   write |-> <<[data |-> body, ok |-> ptyOk]>>, log |-> body]

\* case MsgData, with ptyOk telling whether t.Pty.Write succeeds
HandleData(body, ptyOk, recorder) ==
  IF ~ptyOk
  THEN [next |-> "ret", err |-> "ptywrite", resize |-> <<>>,
        write |-> <<[data |-> body, ok |-> FALSE]>>, log |-> <<>>]
  ELSE [next |-> IF recorder THEN "lock" ELSE "select", err |-> "none",
        resize |-> <<>>,
        write |-> <<[data |-> body, ok |-> TRUE]>>, log |-> body]

\* Faulty variant of HandleMessage: every discriminant but MsgResize is
\* taken as MsgData
HandleMessage_DefaultData(msg, ptyOk, recorder) ==
  IF Len(msg) = 0
  THEN [next |-> "panic", err |-> "none"] @@ NoEffect
  ELSE LET body == decode(Tail(msg)) IN
       IF msg[1] = MsgResize THEN HandleResize(body, ptyOk)
       ELSE HandleData(body, ptyOk, recorder)

\* the body of the default case after a successful ReadMessage
HandleMessage(msg, ptyOk, recorder) ==
  IF Len(msg) = 0
  THEN \* wsData[1:] of an empty slice: slice bounds out of range
       [next |-> "panic", err |-> "none"] @@ NoEffect
  ELSE LET body == decode(Tail(msg)) IN
       IF msg[1] = MsgResize THEN HandleResize(body, ptyOk)
       ELSE IF msg[1] = MsgData THEN HandleData(body, ptyOk, recorder)
       ELSE [next |-> "select", err |-> "none"] @@ NoEffect

\* the caller calls t.LoopRead(logBuff, ctx)
LoopReadCall ==
  /\ turn = "live" /\ pc["lr"] = "idle"
  /\ pc' = [pc EXCEPT !["lr"] = "select"]
  /\ UNCHANGED <<turn, hasRecorder, envVars, closeVars, outVars, inVars, recVars>>

\* the head of the loop
LoopSelect ==
  /\ pc["lr"] = "select"
  /\ pc' = [pc EXCEPT !["lr"] = SelectNext(cancelled)]
  /\ lrErr' = IF SelectNext(cancelled) = "ret" THEN "LoopRead exit" ELSE lrErr
  /\ UNCHANGED <<turn, hasRecorder, envVars, closeVars, outVars, recVars>>
  /\ UNCHANGED <<wsData, inFrames, ptyIn, logBuff, resizeCalls>>

\* _, wsData, err := t.WsConn.ReadMessage() returns: with an error when the
\* connection is closed on either side, with the client's next message
\* otherwise
LoopRecv(frames, max) ==
  /\ pc["lr"] = "recv"
  /\ \/ /\ connClosed \/ remoteClosed
        /\ lrErr' = "read"
        /\ pc' = [pc EXCEPT !["lr"] = "ret"]
        /\ UNCHANGED <<wsData, inFrames>>
     \/ /\ ~connClosed /\ ~remoteClosed /\ Len(inFrames) < max
        /\ \E f \in frames :
             /\ wsData' = f
             /\ inFrames' = Append(inFrames, f)
        /\ pc' = [pc EXCEPT !["lr"] = "handle"]
        /\ UNCHANGED lrErr
  /\ UNCHANGED <<turn, hasRecorder, envVars, closeVars, outVars, recVars>>
  /\ UNCHANGED <<ptyIn, logBuff, resizeCalls>>

\* decode and dispatch of one message, up to the recorder
LoopHandle ==
  /\ pc["lr"] = "handle"
  /\ LET h == HandleMessage(wsData, ptyState = "open", hasRecorder) IN
       /\ pc' = [pc EXCEPT !["lr"] = h.next]
       /\ lrErr' = IF h.next = "ret" THEN h.err ELSE lrErr
       /\ resizeCalls' = resizeCalls \o h.resize
       /\ ptyIn' = ptyIn \o h.write
       /\ logBuff' = logBuff \o h.log
       /\ ioLog' = IF hasRecorder /\ h.write # <<>> /\ h.write[1].ok
                   THEN Append(ioLog, [type |-> "input", data |-> h.write[1].data])
                   ELSE ioLog
  /\ UNCHANGED <<turn, hasRecorder, envVars, closeVars, outVars, recLock, recLog>>
  /\ UNCHANGED <<wsData, inFrames>>

\* t.Recorder.Lock()
LoopLock ==
  /\ pc["lr"] = "lock" /\ LockFree
  /\ recLock' = "lr"
  /\ pc' = [pc EXCEPT !["lr"] = "record"]
  /\ UNCHANGED <<turn, hasRecorder, envVars, closeVars, outVars, inVars, recLog, ioLog>>

\* Faulty variant of LoopRecord: the payload is recorded as received, encoded
LoopRecord_Raw ==
  /\ pc["lr"] = "record"
  /\ recLog' = Append(recLog, [type |-> "input", data |-> Tail(wsData)])
  /\ pc' = [pc EXCEPT !["lr"] = "unlock"]
  /\ UNCHANGED <<turn, hasRecorder, envVars, closeVars, outVars, inVars, recLock, ioLog>>

\* t.Recorder.WriteData(InputType, string(body))
LoopRecord ==
  /\ pc["lr"] = "record"
  /\ recLog' = Append(recLog, [type |-> "input", data |-> decode(Tail(wsData))])
  /\ pc' = [pc EXCEPT !["lr"] = "unlock"]
  /\ UNCHANGED <<turn, hasRecorder, envVars, closeVars, outVars, inVars, recLock, ioLog>>

\* t.Recorder.Unlock()
LoopUnlock ==
  /\ pc["lr"] = "unlock"
  /\ recLock' = "none"
  /\ pc' = [pc EXCEPT !["lr"] = "select"]
  /\ UNCHANGED <<turn, hasRecorder, envVars, closeVars, outVars, inVars, recLog, ioLog>>

\* the caller, once LoopRead has returned, ends the session with t.Close()
CallerClose ==
  /\ pc["lr"] = "ret"
  /\ pc' = [pc EXCEPT !["lr"] = "Ckill"]
  /\ UNCHANGED <<turn, hasRecorder, envVars, closeVars, outVars, inVars, recVars>>

\* ------------------------------------------------------------------------
\* Specifications
\* ------------------------------------------------------------------------
CloseSteps == \E t \in Threads : CloseKill(t) \/ ClosePty(t) \/ CloseConn(t)

Environment == ProcExit \/ CmdWait \/ RemoteClose

\* Session lifecycle: both pumps, the caller's Close calls, the process and
\* the client; no recorder, one message of each fatal kind
LifecycleFrames ==
  { <<MsgData>> \o encode(BytesLs),
    <<MsgResize>> \o encode(JsonResize80x24),
    <<MsgResize>> \o encode(JsonTruncated) }

MaxLifecycleFrames == 1

Next ==
  \/ \E ptyOk, startOk \in BOOLEAN : NewTurn(ptyOk, startOk, FALSE)
  \/ ProcEmit({1})
  \/ Environment
  \/ Cancel
  \/ CloseSteps
  \/ ExplicitClose
  \/ PipeRead
  \/ PipeWrite
  \/ LoopReadCall
  \/ LoopSelect
  \/ LoopRecv(LifecycleFrames, MaxLifecycleFrames)
  \/ LoopHandle
  \/ CallerClose

Spec == Init /\ [][Next]_vars

\* Output pump: the process emits output of every size while the caller has
\* not called LoopRead
NextOut ==
  \/ \E ptyOk, startOk, recorder \in BOOLEAN : NewTurn(ptyOk, startOk, recorder)
  \/ ProcEmit(EmitSizes)
  \/ Environment
  \/ CloseSteps
  \/ ExplicitClose
  \/ PipeRead
  \/ PipeWrite
  \/ PipeLock
  \/ PipeRecord
  \/ PipeUnlock

SpecOut == Init /\ [][NextOut]_vars

\* Input pump: the client sends every kind of message while the process is
\* silent, so that pipeOutput stays blocked in t.Pty.Read
NextIn ==
  \/ \E ptyOk, startOk, recorder \in BOOLEAN : NewTurn(ptyOk, startOk, recorder)
  \/ RemoteClose
  \/ Cancel
  \/ CloseSteps
  \/ ExplicitClose
  \/ LoopReadCall
  \/ LoopSelect
  \/ LoopRecv(Frames, MaxFrames)
  \/ LoopHandle
  \/ LoopLock
  \/ LoopRecord
  \/ LoopUnlock
  \/ CallerClose

SpecIn == Init /\ [][NextIn]_vars

\* Recorder: both pumps of a Turn that has a recorder, ended by the process's
\* exit, by the client or by the caller after LoopRead
RecorderFrames ==
  { <<MsgData>> \o encode(BytesLs),
    <<MsgData>> \o encode(<<97>>) }

NextRec ==
  \/ \E ptyOk, startOk \in BOOLEAN : NewTurn(ptyOk, startOk, TRUE)
  \/ ProcEmit({1})
  \/ ProcExit
  \/ RemoteClose
  \/ CloseSteps
  \/ PipeRead
  \/ PipeWrite
  \/ PipeLock
  \/ PipeRecord
  \/ PipeUnlock
  \/ LoopReadCall
  \/ LoopSelect
  \/ LoopRecv(RecorderFrames, MaxFrames)
  \/ LoopHandle
  \/ LoopLock
  \/ LoopRecord
  \/ LoopUnlock
  \/ CallerClose

SpecRec == Init /\ [][NextRec]_vars


\* Progress of pipeOutput: a Turn without recorder whose caller calls Close
\* from a goroutine of its own. Every goroutine that can take a step of Close
\* or write to the connection does so. t.Pty.Read is certain to return when
\* output is waiting or when the pty has been closed; after the process's exit
\* it returns an error only once every descendant of the process has closed
\* the terminal, which nothing guarantees, so that return is not forced.
NextLive ==
  \/ \E ptyOk, startOk \in BOOLEAN : NewTurn(ptyOk, startOk, FALSE)
  \/ ProcEmit({1})
  \/ Environment
  \/ CloseSteps
  \/ ExplicitClose
  \/ PipeRead
  \/ PipeWrite

PipeReadReturns == PipeRead /\ (ptyState = "closed" \/ ptyAvail > 0)

FairLive ==
  /\ \A t \in Threads : WF_vars(CloseKill(t) \/ ClosePty(t) \/ CloseConn(t))
  /\ WF_vars(PipeReadReturns)
  /\ WF_vars(PipeWrite)

SpecLive == Init /\ [][NextLive]_vars /\ FairLive

\* ------------------------------------------------------------------------
\* Properties
\* ------------------------------------------------------------------------
Releases == <<"kill", "pty", "conn">>

IsPrefix(a, b) == Len(a) <= Len(b) /\ a = SubSeq(b, 1, Len(a))

Front(q) == SubSeq(q, 1, Len(q) - 1)

\* the process has ended, the pty and the connection are closed
AllReleased == proc \in {"exited", "reaped"} /\ ptyState = "closed" /\ connClosed

\* nothing has been released
AllActive == proc = "running" /\ ptyState = "open" /\ ~connClosed

\* number of Close invocations that invoked release r
Invocations(r) == Cardinality({t \in Threads : r \in Range(rel[t])})

\* the errors LoopRead treats as fatal
FatalErrors == {"read", "unmarshal", "resize", "ptywrite"}

\* LoopRead is between its call and its return
LoopReadRunning == pc["lr"] \in {"select", "recv", "handle", "lock", "record", "unlock"}

\* C1: every Close invocation that has returned has invoked all three
\* releases (kill, pty close, connection close), whatever the kill returned.
C1_AllReleasesAttempted ==
  \A t \in Threads : closeErr[t] # "none" => rel[t] = Releases

\* C2: over all Close invocations of a session, each of the three releases
\* is performed at most once.
C2_TeardownOnce ==
  \A r \in Range(Releases) : Invocations(r) <= 1

\* C3: when LoopRead has returned a fatal error and the Close it leads to has
\* returned, the process is ended, the pty closed and the connection closed.
C3_FatalErrorTearsDown ==
  (pc["lr"] = "done" /\ lrErr \in FatalErrors) => AllReleased

\* C4: when pipeOutput has returned (after a failed read or write and its
\* Close), the process, the pty and the connection are all released.
C4_PipeErrorReleasesAll ==
  pc["po"] = "done" => AllReleased

\* C5: once a Close invocation has returned, the three resources are either
\* all released or all still active.
C5_AllOrNothing ==
  (\E t \in Threads : closeErr[t] # "none") => (AllReleased \/ AllActive)

\* C6 as stated: once the context is cancelled, a running LoopRead completes
\* no further ReadMessage, and when it returns it returns "LoopRead exit".
C6_CancelStopsInEveryState ==
  [][ (cancelled /\ LoopReadRunning) =>
        /\ ~(pc["lr"] = "recv" /\ pc'["lr"] # "recv")
        /\ (pc'["lr"] = "ret" => lrErr' = "LoopRead exit") ]_vars

\* C6 amended: a LoopRead that is at the head of its loop when the context is
\* cancelled returns "LoopRead exit" in its next step, without reading from
\* the connection.
C6_CancelAtLoopHead ==
  [][ (cancelled /\ pc["lr"] = "select" /\ pc'["lr"] # "select") =>
        /\ pc'["lr"] = "ret"
        /\ lrErr' = "LoopRead exit"
        /\ inFrames' = inFrames ]_vars

\* LoopRead returned "LoopRead exit" after it had handled a message
C6_Witness ==
  pc["lr"] = "ret" /\ lrErr = "LoopRead exit" /\ Len(inFrames) = 1

\* C7: the messages written to the connection are, one for one, the chunks
\* read from the pty, as binary messages holding the chunk alone; at most one
\* chunk is read and not yet written; each chunk has 1..4096 bytes and starts
\* where the one before ended.
C7_OutputPreserved ==
  /\ Len(wsOut) <= Len(readHist)
  /\ Len(readHist) <= Len(wsOut) + 1
  /\ \A i \in 1..Len(wsOut) : wsOut[i] = [type |-> "binary", data |-> readHist[i]]
  /\ \A i \in 1..Len(readHist) :
       /\ readHist[i][2] >= 1 /\ readHist[i][2] <= BufferSize
       /\ readHist[i][1] = IF i = 1 THEN 0 ELSE readHist[i - 1][1] + readHist[i - 1][2]

\* a full buffer and then the one byte left over were forwarded
C7_Witness ==
  /\ Len(wsOut) = 2
  /\ wsOut[1].data = <<0, BufferSize>>
  /\ wsOut[2].data = <<BufferSize, 1>>

\* the messages LoopRead has dispatched
Dispatched == IF pc["lr"] = "handle" THEN Front(inFrames) ELSE inFrames

\* the decoded payloads of the Data frames of a sequence of messages
RECURSIVE DataPayloads(_)
DataPayloads(fs) ==
  IF fs = <<>> THEN <<>>
  ELSE LET f == Head(fs) IN
       (IF Len(f) > 0 /\ f[1] = MsgData THEN <<decode(Tail(f))>> ELSE <<>>)
         \o DataPayloads(Tail(fs))

\* the bytes of the pty writes that succeeded, concatenated
RECURSIVE Written(_)
Written(ws) ==
  IF ws = <<>> THEN <<>>
  ELSE (IF Head(ws).ok THEN Head(ws).data ELSE <<>>) \o Written(Tail(ws))

\* C8: the pty writes are the decoded payloads of the dispatched Data frames,
\* one write per frame in arrival order, and the log buffer is the
\* concatenation of the payloads whose write succeeded.
C8_InputInOrder ==
  /\ [i \in 1..Len(ptyIn) |-> ptyIn[i].data] = DataPayloads(Dispatched)
  /\ logBuff = Written(ptyIn)

\* "ls\n" then "a" were written to the pty and logged
C8_Witness ==
  /\ Len(ptyIn) = 2
  /\ ptyIn[1] = [data |-> BytesLs, ok |-> TRUE]
  /\ ptyIn[2] = [data |-> <<97>>, ok |-> TRUE]
  /\ logBuff = <<108, 115, 10, 97>>

IsResize(f) == Len(f) > 0 /\ f[1] = MsgResize

\* the Resize command of a Resize frame
Command(f) == Unmarshal(decode(Tail(f)))

\* the resize calls a sequence of messages asks for
RECURSIVE ResizeRequests(_)
ResizeRequests(fs) ==
  IF fs = <<>> THEN <<>>
  ELSE LET f == Head(fs) IN
       (IF IsResize(f) /\ ~Command(f).err /\ Command(f).Columns > 0 /\ Command(f).Rows > 0
        THEN << <<Command(f).Rows, Command(f).Columns>> >> ELSE <<>>)
         \o ResizeRequests(Tail(fs))

\* C9: the resize calls are, one for one and in order, (rows, columns) of the
\* dispatched Resize frames whose values are both positive; dispatching a
\* Resize frame with a value <= 0 makes no call, returns no error and leads
\* back to the head of the loop.
C9_ResizeApplied ==
  /\ [](resizeCalls = ResizeRequests(Dispatched))
  /\ [][ ( /\ pc["lr"] = "handle" /\ pc'["lr"] # "handle"
           /\ IsResize(wsData) /\ ~Command(wsData).err
           /\ (Command(wsData).Columns <= 0 \/ Command(wsData).Rows <= 0) ) =>
         ( /\ pc'["lr"] = "select"
           /\ lrErr' = "none"
           /\ resizeCalls' = resizeCalls ) ]_vars

\* a frame with columns 0 was passed over and the next frame resized the pty
\* to 24 rows, 80 columns
C9_Witness ==
  /\ Len(inFrames) = 2
  /\ Command(inFrames[1]) = [err |-> FALSE, Columns |-> 0, Rows |-> 24]
  /\ pc["lr"] = "select"
  /\ lrErr = "none"
  /\ resizeCalls = << <<24, 80>> >>

\* C10: within one Close invocation the releases are invoked in the order
\* kill, pty close, connection close.
C10_ReleaseOrder ==
  \A t \in Threads : IsPrefix(rel[t], Releases)

\* pipeOutput's Close went through all three releases
C10_Witness ==
  rel["po"] = Releases /\ closeErr["po"] = "nil"

\* what a Close invocation should return: the error of the first of its
\* releases that failed, nil when none failed
FirstError(failed) ==
  IF "kill" \in failed THEN "kill"
  ELSE IF "pty" \in failed THEN "pty"
  ELSE IF "conn" \in failed THEN "conn"
  ELSE "nil"

\* C11: a Close invocation that has returned has returned the error of the
\* first release that failed (kill, else pty close, else connection close),
\* and nil only when all three succeeded.
C11_FirstErrorReturned ==
  \A t \in Threads : closeErr[t] # "none" => closeErr[t] = FirstError(relFail[t])

\* C12: when NewTurn fails there is no Turn, no process, no open pty (a pty
\* that was allocated is closed) and pipeOutput is not started; pipeOutput
\* runs only on a Turn whose pty and process were both created.
C12_FailedCreation ==
  /\ turn = "failed" =>
       /\ ptyState \in {"none", "closed"}
       /\ proc = "none"
       /\ \A t \in Threads : pc[t] = "idle"
  /\ pc["po"] # "idle" => (turn = "live" /\ ptyState # "none" /\ proc # "none")

\* cmd.Start failed after the pty was allocated
C12_Witness ==
  turn = "failed" /\ ptyState = "closed" /\ pc["po"] = "idle"

\* LoopRead dispatches the message it has read
Dispatches == pc["lr"] = "handle" /\ pc'["lr"] # "handle"

\* a Data frame whose payload is not well-formed base64
IsMalformedData(f) ==
  Len(f) > 0 /\ f[1] = MsgData /\ DecodeFrom(Tail(f), 1, <<>>).err

\* the bytes base64 decoding produced before it met the malformed part
BestEffort(f) == DecodeFrom(Tail(f), 1, <<>>).data

\* C13: dispatching a Data frame with malformed base64 while the pty accepts
\* the write returns no error, writes the bytes decoded before the malformed
\* part to the pty and to the log buffer, and goes on (to the recorder, then
\* to the next iteration).
C13_MalformedDataTolerated ==
  [][ (Dispatches /\ IsMalformedData(wsData) /\ ptyState = "open") =>
        /\ pc'["lr"] = IF hasRecorder THEN "lock" ELSE "select"
        /\ lrErr' = "none"
        /\ ptyIn' = Append(ptyIn, [data |-> BestEffort(wsData), ok |-> TRUE])
        /\ logBuff' = logBuff \o BestEffort(wsData) ]_vars

\* "ls\n" came out of a malformed frame and LoopRead read the next message
C13_Witness ==
  /\ Len(inFrames) = 2
  /\ IsMalformedData(inFrames[1])
  /\ ptyIn = <<[data |-> BytesLs, ok |-> TRUE]>>
  /\ logBuff = BytesLs
  /\ pc["lr"] = "handle"
  /\ lrErr = "none"

\* a message whose discriminant is neither '1' nor '2'
IsUnknown(f) == Len(f) > 0 /\ f[1] # MsgData /\ f[1] # MsgResize

\* C14: dispatching a message with an unknown discriminant writes nothing to
\* the pty, the log buffer or the recorder, makes no resize call, returns no
\* error and leads back to the head of the loop.
C14_UnknownIgnored ==
  [][ (Dispatches /\ IsUnknown(wsData)) =>
        /\ pc'["lr"] = "select"
        /\ lrErr' = "none"
        /\ UNCHANGED <<ptyIn, logBuff, resizeCalls, recLog, recLock>> ]_vars

\* a message with discriminant '3' was passed over and the next one was read
C14_Witness ==
  /\ Len(inFrames) = 2
  /\ IsUnknown(inFrames[1])
  /\ pc["lr"] = "handle"
  /\ ptyIn = <<>> /\ logBuff = <<>> /\ resizeCalls = <<>> /\ recLog = <<>>
  /\ lrErr = "none"

IsData(f) == Len(f) > 0 /\ f[1] = MsgData

IsInput(e) == e.type = "input"

IsOutput(e) == e.type = "output"

\* C19: dispatching a Data frame whose pty write fails makes LoopRead return
\* the write error with the log buffer and the recorder as they were; after
\* that return no message is read or dispatched and no Input chunk recorded.
C19_FailedWriteLeavesNoTrace ==
  /\ [][ (Dispatches /\ IsData(wsData) /\ ptyState # "open") =>
           /\ pc'["lr"] = "ret"
           /\ lrErr' = "ptywrite"
           /\ ptyIn' = Append(ptyIn, [data |-> decode(Tail(wsData)), ok |-> FALSE])
           /\ UNCHANGED <<logBuff, recLog, recLock>> ]_vars
  /\ [][ lrErr = "ptywrite" =>
           /\ UNCHANGED <<lrErr, inFrames, ptyIn, logBuff, resizeCalls>>
           /\ SelectSeq(recLog', IsInput) = SelectSeq(recLog, IsInput) ]_vars

\* the second Data frame met a closed pty: only the first one is logged, and
\* the caller has gone on to close the session
C19_Witness ==
  /\ lrErr = "ptywrite"
  /\ ptyIn = <<[data |-> BytesLs, ok |-> TRUE], [data |-> <<97>>, ok |-> FALSE]>>
  /\ logBuff = BytesLs
  /\ pc["lr"] = "done"

\* C20: LoopRead never crashes on a message: a zero-length message is passed
\* over or answered with an error, never indexed or sliced.
C20_NoCrash ==
  pc["lr"] # "panic"

Pumps == {"po", "lr"}

\* a pump is between t.Recorder.Lock() and t.Recorder.Unlock()
InCritical(t) == pc[t] \in {"record", "unlock"}

\* C15: the two pumps are never both between Lock and Unlock; a pump that
\* writes the recorder holds the lock; a pump outside its critical section
\* (waiting, looping, closing, returned) does not hold it.
C15_RecorderExclusive ==
  /\ ~(InCritical("po") /\ InCritical("lr"))
  /\ \A t \in Pumps : pc[t] = "record" => recLock = t
  /\ \A t \in Pumps : ~InCritical(t) => recLock # t

\* pipeOutput waits for the lock while LoopRead writes the recorder
C15_Witness ==
  pc["po"] = "lock" /\ pc["lr"] = "record" /\ recLock = "lr"

\* a is a subsequence of b
RECURSIVE IsSubseq(_, _)
IsSubseq(a, b) ==
  IF a = <<>> THEN TRUE
  ELSE IF b = <<>> THEN FALSE
  ELSE IF Head(a) = Head(b) THEN IsSubseq(Tail(a), Tail(b))
  ELSE IsSubseq(a, Tail(b))

\* C17 as stated: the recorder log lists the chunks in the order of their
\* writes to the connection and to the pty.
C17_LogFollowsWrites ==
  IsSubseq(recLog, ioLog)

\* C17 amended: within each direction the recorder log lists the chunks in
\* the order of their writes (Output chunks as written to the connection,
\* Input chunks as written to the pty).
C17_LogFollowsWritesPerDirection ==
  /\ IsPrefix(SelectSeq(recLog, IsOutput), SelectSeq(ioLog, IsOutput))
  /\ IsPrefix(SelectSeq(recLog, IsInput), SelectSeq(ioLog, IsInput))

\* an output chunk was written before an input chunk and recorded after it
C17_Witness ==
  /\ Len(ioLog) = 2 /\ Len(recLog) = 2
  /\ ioLog[1].type = "output" /\ ioLog[2].type = "input"
  /\ recLog = <<ioLog[2], ioLog[1]>>

\* the chunks of the messages written to the connection
Sent == [i \in 1..Len(wsOut) |-> wsOut[i].data]

\* the chunks of the Output entries of the recorder
RecordedOutput ==
  LET outs == SelectSeq(recLog, IsOutput) IN [i \in 1..Len(outs) |-> outs[i].data]

\* C18: the Output chunks of the recorder are a prefix of the chunks written
\* to the connection and, with a recorder present, at most one behind;
\* pipeOutput is on its way to the recorder only with the chunk it has just
\* written, and only when a recorder is present.
C18_RecordAfterWrite ==
  /\ IsPrefix(RecordedOutput, Sent)
  /\ hasRecorder => Len(Sent) <= Len(RecordedOutput) + 1
  /\ pc["po"] \in {"lock", "record"} =>
       /\ hasRecorder
       /\ Len(Sent) = Len(RecordedOutput) + 1
       /\ Sent[Len(Sent)] = chunk

\* the first chunk was written and recorded, the write of the second failed
\* and pipeOutput ended without recording it
C18_Witness ==
  /\ Len(readHist) = 2
  /\ Sent = <<readHist[1]>>
  /\ RecordedOutput = <<readHist[1]>>
  /\ pc["po"] = "done"

\* C16: once the caller's explicit Close has been called on a live Turn,
\* pipeOutput eventually returns.
C16_PumpTerminates ==
  (pc["ex"] = "Ckill") ~> (pc["po"] = "done")

====
